---- MODULE Spec2Model ----
(***************************************************************************)
(* Model of the shelly_services custom component: the authentication       *)
(* switch (switch.py) and the connectivity sensor (sensor.py) of one       *)
(* Shelly device, with the switch of a second device where sessions are    *)
(* compared.  Every coroutine is cut at its await points: one action       *)
(* per synchronous stretch of code.  The device and the Shelly integration *)
(* feed (coordinator) are the environment: their answers are drawn from    *)
(* small sets.                                                             *)
(***************************************************************************)
EXTENDS Integers, Sequences, FiniteSets, TLC

VARIABLES
    attr_is_on,     \* ShellyAuthSwitch._attr_is_on: "unknown" (None), "enabled" (True), "disabled" (False)
    coordinator,    \* ShellyAuthSwitch._coordinator: "none", "nodata" (no data attribute), "feed"
    coordData,      \* coordinator.data
    subscribed,     \* the switch listens to coordinator updates
    addPc,          \* position of async_added_to_hass: "none", "new", "polling", "closing", "added"
    rcalls,         \* requests sent by _check_auth_status
    rresp,          \* the response _check_auth_status received
    rraised,        \* an exception left async_added_to_hass or _handle_coordinator_update
    lastPush,       \* what the last coordinator callback did: "none", "adopted", "kept"
    credentials,    \* ShellyAuthSwitch._credentials (writer credentials captured at setup)
    entryData,      \* ShellyAuthSwitch._entry.data (reader credentials of the device)
    wpc,            \* position of _set_auth: "idle", "probe", "mutate", "closing"
    wenable,        \* the enable argument of the running (or last) _set_auth
    wprior,         \* _attr_is_on when the running (or last) _set_auth was invoked
    wgen,           \* the local gen of _set_auth (0 before the probe is answered)
    wcalls,         \* requests sent by the running (or last) _set_auth
    wresp,          \* the last response _set_auth received
    wresult,        \* outcome of the last _set_auth: "none", "rejected", "ok", "failed"
    wlog,           \* the log record written by the last _set_auth
    nWrites,        \* number of _set_auth invocations so far
    nPush,          \* number of coordinator updates so far
    pushedInWrite,  \* a coordinator update ran while the running (or last) _set_auth was awaiting
    rsession,       \* the ClientSession of _check_auth_status: "none", "open", "closed"
    wsession,       \* the ClientSession of the running (or last) _set_auth
    spc,            \* position of ShellyConnectivitySensor.async_added_to_hass
    sgen,           \* the value _detect_generation returned
    scalls,         \* requests sent by _load_connectivity_config
    sresp,          \* the response _detect_generation received
    cresp,          \* the response to the sensor's configuration call
    native_value,   \* ShellyConnectivitySensor._attr_native_value
    sraised,        \* an exception left _load_connectivity_config
    ssession,       \* the ClientSession of _load_connectivity_config
    registry,       \* device_registry.devices.values(), in iteration order
    configData,     \* entry.data of the shelly_services config entry (writer credentials)
    hassData,       \* hass.data[DOMAIN][entry.entry_id]
    platforms,      \* the platforms whose async_setup_entry has run since the last setup
    switches,       \* the device_info of every ShellyAuthSwitch added, in order
    sensors,        \* kind and device_info of every sensor added, in order
    nSetups,        \* number of runs of the integration's async_setup_entry so far
    nOptions,       \* number of options flows submitted so far
    entryState,     \* the config entry's state: "not_loaded", "setup", "loaded", "unloading"
    setupData,      \* entry.data as it was when the integration's async_setup_entry last ran
    writesAtOptions, \* nWrites when the last options flow was submitted
    peerPc,         \* position of async_added_to_hass of the second ShellyAuthSwitch
    peer_attr_is_on, \* _attr_is_on of the second ShellyAuthSwitch
    peerCalls,      \* requests sent by _check_auth_status of the second ShellyAuthSwitch
    peerSession,    \* the ClientSession of that _check_auth_status
    nPeerWrites,    \* number of _set_auth invocations on the second ShellyAuthSwitch so far
    others          \* the _set_auth coroutines in flight besides the last one invoked on the
                    \* first switch: its earlier invocations and those of the second switch

switchVars == <<attr_is_on, coordinator, coordData, subscribed, addPc, rcalls, rresp, rraised,
                lastPush, credentials, entryData, wpc, wenable, wprior, wgen, wcalls, wresp,
                wresult, wlog, nWrites, nPush, pushedInWrite, rsession, wsession>>
sensorVars == <<spc, sgen, scalls, sresp, cresp, native_value, sraised, ssession>>
setupVars == <<registry, configData, hassData, platforms, switches, sensors, nSetups, nOptions,
               entryState, setupData, writesAtOptions>>
peerVars == <<peerPc, peer_attr_is_on, peerCalls, peerSession, nPeerWrites, others>>
vars == <<switchVars, sensorVars, setupVars, peerVars>>

\* ---------------------------------------------------------------- bounds
MaxWrites == 2
MaxPeerWrites == 1
MaxPush == 2
MaxDevices == 2
MaxSetups == 2
MaxOptions == 1

\* ------------------------------------------------------- values and inputs
Absent == "<absent>"
Null == "<null>"

\* the writer credentials of the integration entry (config_flow: username, password)
WriterCredentials == {[username |-> Absent, password |-> Absent],
                      [username |-> Absent, password |-> "pw"],
                      [username |-> "svc", password |-> ""],
                      [username |-> "svc", password |-> "pw"]}
\* the data of the device's Shelly entry (reader credentials)
ReaderData == [username : {Absent, "rd"}, password : {"", "rp"}]

Flags == {Absent, "true", "false"}
\* the JSON value under "gen": missing, null, a string, or a number
GenValues == {[t |-> Absent, v |-> 0], [t |-> "null", v |-> 0], [t |-> "str", v |-> 0]}
             \cup [t : {"int"}, v : 1..4]

NoBody == [t |-> "none", gen |-> [t |-> Absent, v |-> 0], auth_en |-> Absent, auth |-> Absent]
\* bodies: not JSON ("bad"), JSON that is no object ("list"), or an object
ShellyBodies == {[t |-> "bad", gen |-> [t |-> Absent, v |-> 0], auth_en |-> Absent, auth |-> Absent],
                 [t |-> "list", gen |-> [t |-> Absent, v |-> 0], auth_en |-> Absent, auth |-> Absent]}
                \cup [t : {"obj"}, gen : GenValues, auth_en : Flags, auth : Flags]
GenBodies == {b \in ShellyBodies : b.auth_en = Absent /\ b.auth = Absent}

NoResponse == [kind |-> "none", status |-> 0, body |-> NoBody]
Raised == [kind |-> "exc", status |-> 0, body |-> NoBody]
Http(status, body) == [kind |-> "http", status |-> status, body |-> body]

ErrorStatuses == {401, 403}
\* answers to GET /shelly as the reader sees them
PollResponses == {Raised} \cup {Http(s, NoBody) : s \in ErrorStatuses}
                 \cup {Http(200, b) : b \in ShellyBodies}
\* answers to GET /shelly as the writer and the sensor use them (only gen is read)
ProbeResponses == {Raised} \cup {Http(s, NoBody) : s \in ErrorStatuses}
                  \cup {Http(200, b) : b \in GenBodies}
\* answers to the mutation call (the body is never read)
MutationResponses == {Raised} \cup {Http(s, NoBody) : s \in {200} \cup ErrorStatuses}

\* coordinator.data: no key lookup ("nil"), a mapping, or a mapping whose get raises
NoData == [t |-> "nil", auth_en |-> Absent, auth |-> Absent]
FeedData == {NoData, [t |-> "raises", auth_en |-> Absent, auth |-> Absent]}
            \cup [t : {"map"}, auth_en : Flags, auth : Flags]

\* ------------------------------------------------------------ requests
NoAuth == [kind |-> "none", login |-> "", password |-> ""]
BasicAuth(login, password) == [kind |-> "basic", login |-> login, password |-> password]

NoPayload == [kind |-> "none", keys |-> {}, enabled |-> "", user |-> "", pass |-> ""]
EmptyJson == [kind |-> "json", keys |-> {}, enabled |-> "", user |-> "", pass |-> ""]

\* the object `aiohttp.ClientSession()` constructs in the n-th run of method op of the
\* entity of host: every evaluation constructs a new object
Session(host, op, n) == [host |-> host, op |-> op, n |-> n]
NoSession == Session("", "", 0)

\* a request not yet handed to a session
Request(method, path, payload, auth) ==
    [method |-> method, path |-> path, payload |-> payload, auth |-> auth,
     session |-> NoSession]

\* session.get / session.post: the request goes out on session
On(session, req) == [req EXCEPT !.session = session]

\* a Python truth value of a JSON flag
AsState(flag) == IF flag = "true" THEN "enabled" ELSE "disabled"
\* Python's `a or b` on two flags (None and False are falsy)
PyOr(a, b) == IF a = "true" THEN a ELSE b

\* dict.get(key, default) on the credentials
Username(c) == IF c.username = Absent THEN "admin" ELSE c.username
Password(c) == IF c.password = Absent THEN "" ELSE c.password

\* ------------------------------------------------------- Auth State Reader
\* the exception in flight at the end of the try body of _update_from_coordinator: the
\* lookup on coordinator.data is the only statement that can raise
FeedReadException(coord, data) ==
    IF coord = "feed" /\ data.t = "raises" THEN "Exception" ELSE "none"

\* mutant: the handler catches key errors only, other exceptions pass through
ExceptException_narrow(exc) == IF exc = "KeyError" THEN "none" ELSE exc

\* `except Exception as err:` with a body that only logs: what is still in flight after it
ExceptException(exc) == IF exc = "Exception" THEN "none" ELSE exc

\* _update_from_coordinator: an exception leaves the call
update_from_coordinator_raises(coord, data) ==
    ExceptException(FeedReadException(coord, data)) # "none"

\* mutant: the flags are tested for truth (`if auth_en:`), so a false flag counts as absent
update_from_coordinator_truthy(coord, data, cur) ==
    IF coord # "feed" THEN cur
    ELSE IF data.t # "map" THEN cur
    ELSE IF data.auth_en = "true" THEN AsState(data.auth_en)
    ELSE IF data.auth = "true" THEN AsState(data.auth)
    ELSE cur

\* mutant: data without a usable flag clears the state
update_from_coordinator_clear(coord, data, cur) ==
    IF coord # "feed" THEN cur
    ELSE IF data.t # "map" THEN "unknown"
    ELSE IF data.auth_en # Absent THEN AsState(data.auth_en)
    ELSE IF data.auth # Absent THEN AsState(data.auth)
    ELSE "unknown"

\* _update_from_coordinator: the value of _attr_is_on after the call
update_from_coordinator(coord, data, cur) ==
    IF coord # "feed" THEN cur
    ELSE IF data.t # "map" THEN cur
    ELSE IF data.auth_en # Absent THEN AsState(data.auth_en)
    ELSE IF data.auth # Absent THEN AsState(data.auth)
    ELSE cur

\* mutant: basic-auth is built as soon as a password is set (`if password:`)
ReaderAuth_password(data) ==
    LET username == IF data.username = Absent THEN "" ELSE data.username
        password == data.password
    IN IF password # "" THEN BasicAuth(username, password) ELSE NoAuth

\* the auth argument the reader and the sensor build from the Shelly entry
ReaderAuth(data) ==
    LET username == IF data.username = Absent THEN "" ELSE data.username
        password == data.password
    IN IF password # "" /\ username # "" THEN BasicAuth(username, password) ELSE NoAuth

\* the request _check_auth_status sends
CheckAuthRequest(data) == Request("GET", "/shelly", NoPayload, ReaderAuth(data))

\* mutant: HTTP 401 is handled like any other error status
check_auth_status_no401(resp, cur) ==
    IF resp.kind # "http" THEN cur
    ELSE IF resp.status # 200 THEN cur
    ELSE IF resp.body.t # "obj" THEN cur
    ELSE LET gen == resp.body.gen
             auth_enabled == IF gen.t = "int" /\ (gen.v = 2 \/ gen.v = 3)
                             THEN resp.body.auth_en ELSE resp.body.auth
             fallback == PyOr(resp.body.auth_en, resp.body.auth)
         IN IF auth_enabled # Absent THEN AsState(auth_enabled)
            ELSE IF fallback # Absent THEN AsState(fallback)
            ELSE cur

\* _check_auth_status: the value of _attr_is_on after the response was handled
check_auth_status(resp, cur) ==
    IF resp.kind # "http" THEN cur
    ELSE IF resp.status = 401 THEN "enabled"
    ELSE IF resp.status # 200 THEN cur
    ELSE IF resp.body.t # "obj" THEN cur
    ELSE LET gen == resp.body.gen
             auth_enabled == IF gen.t = "int" /\ (gen.v = 2 \/ gen.v = 3)
                             THEN resp.body.auth_en ELSE resp.body.auth
             fallback == PyOr(resp.body.auth_en, resp.body.auth)
         IN IF auth_enabled # Absent THEN AsState(auth_enabled)
            ELSE IF fallback # Absent THEN AsState(fallback)
            ELSE cur

\* _check_auth_status ended in its except clause
CheckAuthFailed(resp) ==
    \/ resp.kind = "exc"
    \/ resp.kind = "http" /\ resp.status = 200 /\ resp.body.t # "obj"

\* async_added_to_hass up to its first await (or to its end when a feed exists)
async_added_to_hass ==
    /\ addPc = "new"
    /\ IF coordinator = "feed"
       THEN /\ attr_is_on' = update_from_coordinator(coordinator, coordData, attr_is_on)
            /\ rraised' = update_from_coordinator_raises(coordinator, coordData)
            /\ subscribed' = TRUE
            /\ addPc' = "added"
            /\ UNCHANGED <<rcalls, rsession>>
       ELSE /\ rsession' = "open"
            /\ rcalls' = <<On(Session(switches[1].host, "_check_auth_status", nSetups),
                              CheckAuthRequest(entryData))>>
            /\ addPc' = "polling"
            /\ UNCHANGED <<attr_is_on, subscribed, rraised>>
    /\ UNCHANGED <<coordinator, coordData, rresp, lastPush, credentials, entryData,
                   wpc, wenable, wprior, wgen, wcalls, wresp, wresult, wlog, nWrites, nPush,
                   pushedInWrite, wsession>>
    /\ UNCHANGED <<sensorVars, setupVars>>
    /\ UNCHANGED peerVars

\* mutant: a poll that raised or was refused with 403 is sent again until it is answered
CheckAuthReturn_again ==
    /\ addPc = "polling"
    /\ \E resp \in PollResponses :
          LET again == resp.kind = "exc" \/ resp.status = 403
          IN /\ rresp' = resp
             /\ attr_is_on' = check_auth_status(resp, attr_is_on)
             /\ addPc' = IF again THEN "polling" ELSE "closing"
    /\ UNCHANGED <<coordinator, coordData, subscribed, rcalls, rraised, lastPush, credentials,
                   entryData, wpc, wenable, wprior, wgen, wcalls, wresp, wresult, wlog,
                   nWrites, nPush, pushedInWrite, rsession, wsession>>
    /\ UNCHANGED <<sensorVars, setupVars>>
    /\ UNCHANGED peerVars

\* the answer to the poll arrives: _check_auth_status up to the exits of its two
\* `async with` blocks, which are awaits that follow the assignment
CheckAuthReturn ==
    /\ addPc = "polling"
    /\ \E resp \in PollResponses :
          /\ rresp' = resp
          /\ attr_is_on' = check_auth_status(resp, attr_is_on)
    /\ addPc' = "closing"
    /\ UNCHANGED <<coordinator, coordData, subscribed, rcalls, rraised, lastPush, credentials,
                   entryData, wpc, wenable, wprior, wgen, wcalls, wresp, wresult, wlog,
                   nWrites, nPush, pushedInWrite, rsession, wsession>>
    /\ UNCHANGED <<sensorVars, setupVars>>
    /\ UNCHANGED peerVars

\* the response and the session are closed: the rest of _check_auth_status (its except
\* clause only logs) and of async_added_to_hass; the entity may have been removed meanwhile
CheckAuthExit ==
    /\ addPc = "closing"
    /\ addPc' = IF switches = <<>> THEN "none" ELSE "added"
    /\ rsession' = "closed"
    /\ UNCHANGED <<attr_is_on, coordinator, coordData, subscribed, rcalls, rresp, rraised,
                   lastPush, credentials, entryData, wpc, wenable, wprior, wgen, wcalls, wresp,
                   wresult, wlog, nWrites, nPush, pushedInWrite, wsession>>
    /\ UNCHANGED <<sensorVars, setupVars>>
    /\ UNCHANGED peerVars

\* mutant: a coordinator update that arrives while _set_auth is awaiting is ignored
handle_coordinator_update_busy ==
    /\ subscribed
    /\ nPush < MaxPush
    /\ \E d \in FeedData :
          /\ coordData' = d
          /\ attr_is_on' = IF wpc # "idle" THEN attr_is_on
                           ELSE update_from_coordinator(coordinator, d, attr_is_on)
          /\ lastPush' = IF d.t = "map" /\ (d.auth_en # Absent \/ d.auth # Absent)
                         THEN "adopted" ELSE "kept"
          /\ rraised' = (rraised \/ update_from_coordinator_raises(coordinator, d))
    /\ nPush' = nPush + 1
    /\ pushedInWrite' = (pushedInWrite \/ wpc # "idle")
    /\ UNCHANGED <<coordinator, subscribed, addPc, rcalls, rresp, credentials,
                   entryData, wpc, wenable, wprior, wgen, wcalls, wresp, wresult, wlog, nWrites,
                   rsession, wsession>>
    /\ UNCHANGED <<sensorVars, setupVars>>
    /\ UNCHANGED peerVars

\* the coordinator publishes new data and calls _handle_coordinator_update
handle_coordinator_update ==
    /\ subscribed
    /\ nPush < MaxPush
    /\ \E d \in FeedData :
          /\ coordData' = d
          /\ attr_is_on' = update_from_coordinator(coordinator, d, attr_is_on)
          /\ lastPush' = IF d.t = "map" /\ (d.auth_en # Absent \/ d.auth # Absent)
                         THEN "adopted" ELSE "kept"
          /\ rraised' = (rraised \/ update_from_coordinator_raises(coordinator, d))
    /\ nPush' = nPush + 1
    /\ pushedInWrite' = (pushedInWrite \/ wpc # "idle")
    /\ UNCHANGED <<coordinator, subscribed, addPc, rcalls, rresp, credentials,
                   entryData, wpc, wenable, wprior, wgen, wcalls, wresp, wresult, wlog, nWrites,
                   rsession, wsession>>
    /\ UNCHANGED <<sensorVars, setupVars>>
    /\ UNCHANGED peerVars

\* ------------------------------------------------------- Auth State Writer
NoLog == [level |-> "none", what |-> "", status |-> 0]
Log(level, what, status) == [level |-> level, what |-> what, status |-> status]

ProbeRequest == Request("GET", "/shelly", NoPayload, NoAuth)

\* the value of the local gen after the probe block of _set_auth
SetAuthGen(resp) ==
    IF resp.kind = "http" /\ resp.status = 200 /\ resp.body.t = "obj"
       /\ resp.body.gen.t # Absent
    THEN resp.body.gen
    ELSE [t |-> "int", v |-> 1]

\* `gen >= 2` raises TypeError unless gen is a number
Comparable(gen) == gen.t = "int"

\* mutant: the Gen1 disable request is sent without basic-auth
SetAuthRequest_noauth(gen, enable, creds) ==
    LET username == Username(creds)
        password == Password(creds)
    IN IF gen >= 2
       THEN IF enable
            THEN Request("POST", "/rpc/Sys.SetAuth",
                         [kind |-> "json", keys |-> {"user", "pass"}, enabled |-> "",
                          user |-> username, pass |-> password],
                         NoAuth)
            ELSE Request("POST", "/rpc/Sys.SetAuth",
                         [kind |-> "json", keys |-> {"user"}, enabled |-> "",
                          user |-> Null, pass |-> ""],
                         BasicAuth(username, password))
       ELSE IF enable
            THEN Request("GET", "/settings/login",
                         [kind |-> "params", keys |-> {"enabled", "username", "password"},
                          enabled |-> "1", user |-> username, pass |-> password],
                         NoAuth)
            ELSE Request("GET", "/settings/login",
                         [kind |-> "params", keys |-> {"enabled"}, enabled |-> "0",
                          user |-> "", pass |-> ""],
                         NoAuth)

\* the mutation request _set_auth builds for gen and enable
SetAuthRequest(gen, enable, creds) ==
    LET username == Username(creds)
        password == Password(creds)
    IN IF gen >= 2
       THEN IF enable
            THEN Request("POST", "/rpc/Sys.SetAuth",
                         [kind |-> "json", keys |-> {"user", "pass"}, enabled |-> "",
                          user |-> username, pass |-> password],
                         NoAuth)
            ELSE Request("POST", "/rpc/Sys.SetAuth",
                         [kind |-> "json", keys |-> {"user"}, enabled |-> "",
                          user |-> Null, pass |-> ""],
                         BasicAuth(username, password))
       ELSE IF enable
            THEN Request("GET", "/settings/login",
                         [kind |-> "params", keys |-> {"enabled", "username", "password"},
                          enabled |-> "1", user |-> username, pass |-> password],
                         NoAuth)
            ELSE Request("GET", "/settings/login",
                         [kind |-> "params", keys |-> {"enabled"}, enabled |-> "0",
                          user |-> "", pass |-> ""],
                         BasicAuth(username, password))

\* mutant: only a missing password key is rejected (`if password is None`)
PasswordMissing_keyonly(creds) == creds.password = Absent

\* `if not password` on the writer credentials
PasswordMissing(creds) == Password(creds) = ""

\* mutant: a failed mutation resets the state to unknown
set_auth_state_reset(resp, enable, cur) ==
    IF resp.kind = "http" /\ resp.status = 200
    THEN (IF enable THEN "enabled" ELSE "disabled")
    ELSE "unknown"

\* the value of _attr_is_on after the answer to the mutation call was handled
set_auth_state(resp, enable, cur) ==
    IF resp.kind = "http" /\ resp.status = 200
    THEN (IF enable THEN "enabled" ELSE "disabled")
    ELSE cur

\* a _set_auth coroutine in flight: the switch it runs on (1 the first added, 2 the
\* second), which of the switch's invocations it is (n), its argument, its position, the
\* requests it has sent and the response to its mutation call, once received. The local
\* gen and the probe response are used for nothing once the mutation request is built.
SetAuthRun(switch, n, enable, pc, calls, resp) ==
    [switch |-> switch, n |-> n, enable |-> enable, pc |-> pc, calls |-> calls,
     resp |-> resp]

\* the invocation the w-variables follow, as a coroutine in flight
Overlapped ==
    SetAuthRun(1, wcalls[1].session.n, wenable, wpc, wcalls,
               IF wpc = "closing" /\ Len(wcalls) = 2 THEN wresp ELSE NoResponse)

\* _set_auth from its entry to its first await (or to the early return); the platform
\* calls the switch services only after it has begun to add the entity (switch.py:82)
\* A call made while an earlier _set_auth of the switch is awaiting starts a coroutine of
\* its own: the w-variables follow the last invocation, the earlier one goes on in others.
set_auth(enable) ==
    /\ switches # <<>>
    /\ addPc \in {"polling", "closing", "added"}
    /\ nWrites < MaxWrites
    /\ others' = IF wpc = "idle" THEN others ELSE others \cup {Overlapped}
    /\ nWrites' = nWrites + 1
    /\ wenable' = enable
    /\ wprior' = attr_is_on
    /\ wgen' = 0
    /\ wresp' = NoResponse
    /\ pushedInWrite' = FALSE
    /\ IF PasswordMissing(credentials)
       THEN /\ wcalls' = <<>>
            /\ wsession' = "none"
            /\ wresult' = "rejected"
            /\ wlog' = Log("error", "no password", 0)
            /\ wpc' = "idle"
       ELSE /\ wsession' = "open"
            /\ wcalls' = <<On(Session(switches[1].host, "_set_auth", nWrites'), ProbeRequest)>>
            /\ wresult' = "none"
            /\ wlog' = NoLog
            /\ wpc' = "probe"
    /\ UNCHANGED <<attr_is_on, coordinator, coordData, subscribed, addPc, rcalls, rresp, rraised,
                   lastPush, credentials, entryData, nPush, rsession>>
    /\ UNCHANGED <<sensorVars, setupVars>>
    /\ UNCHANGED <<peerPc, peer_attr_is_on, peerCalls, peerSession, nPeerWrites>>

async_turn_on == set_auth(TRUE)

async_turn_off == set_auth(FALSE)

\* the answer to the generation probe arrives: _set_auth up to the mutation call, or up
\* to the exit of the session when `gen >= 2` raises
SetAuthProbeReturn ==
    /\ wpc = "probe"
    /\ \E resp \in ProbeResponses :
          LET gen == SetAuthGen(resp)
          IN /\ wresp' = resp
             /\ IF Comparable(gen)
                THEN /\ wgen' = gen.v
                     /\ wcalls' = Append(wcalls, On(wcalls[1].session,
                                                      SetAuthRequest(gen.v, wenable, credentials)))
                     /\ wpc' = "mutate"
                     /\ UNCHANGED <<wresult, wlog, wsession>>
                ELSE /\ wpc' = "closing"
                     /\ UNCHANGED <<wgen, wcalls, wresult, wlog, wsession>>
    /\ UNCHANGED <<attr_is_on, coordinator, coordData, subscribed, addPc, rcalls, rresp, rraised,
                   lastPush, credentials, entryData, wenable, wprior, nWrites, nPush,
                   pushedInWrite, rsession>>
    /\ UNCHANGED <<sensorVars, setupVars>>
    /\ UNCHANGED peerVars

\* mutant: a mutation that did not return HTTP 200 is sent once more
SetAuthMutationReturn_retry ==
    /\ wpc = "mutate"
    /\ \E resp \in MutationResponses :
          /\ wresp' = resp
          /\ attr_is_on' = set_auth_state(resp, wenable, attr_is_on)
          /\ IF resp.kind = "http" /\ resp.status = 200
             THEN /\ wlog' = Log("info", IF wenable THEN "enabled" ELSE "disabled", 0)
                  /\ wpc' = "closing"
                  /\ UNCHANGED wcalls
             ELSE IF Len(wcalls) < 3
             THEN /\ wcalls' = Append(wcalls, wcalls[2])
                  /\ wpc' = "mutate"
                  /\ UNCHANGED wlog
             ELSE /\ wlog' = IF resp.kind = "http" THEN Log("error", "status", resp.status)
                             ELSE wlog
                  /\ wpc' = "closing"
                  /\ UNCHANGED wcalls
    /\ UNCHANGED <<coordinator, coordData, subscribed, addPc, rcalls, rresp, rraised, lastPush,
                   credentials, entryData, wenable, wprior, wgen, wresult, nWrites, nPush,
                   pushedInWrite, rsession, wsession>>
    /\ UNCHANGED <<sensorVars, setupVars>>
    /\ UNCHANGED peerVars

\* the answer to the mutation call arrives: _set_auth up to the exits of its `async with`
\* blocks, which are awaits that follow the assignment and the log about the status
SetAuthMutationReturn ==
    /\ wpc = "mutate"
    /\ \E resp \in MutationResponses :
          /\ wresp' = resp
          /\ attr_is_on' = set_auth_state(resp, wenable, attr_is_on)
          /\ wlog' = IF resp.kind = "http" /\ resp.status = 200
                     THEN Log("info", IF wenable THEN "enabled" ELSE "disabled", 0)
                     ELSE IF resp.kind = "http" THEN Log("error", "status", resp.status)
                     ELSE wlog
    /\ wpc' = "closing"
    /\ UNCHANGED <<coordinator, coordData, subscribed, addPc, rcalls, rresp, rraised, lastPush,
                   credentials, entryData, wenable, wprior, wgen, wcalls, wresult, nWrites,
                   nPush, pushedInWrite, rsession, wsession>>
    /\ UNCHANGED <<sensorVars, setupVars>>
    /\ UNCHANGED peerVars

\* an exception is on its way to the outer except clause of _set_auth: `gen >= 2` raised
\* (no mutation call was built) or the mutation call raised
SetAuthRaised == Len(wcalls) < 2 \/ wresp.kind = "exc"

\* the response and the session are closed: the rest of _set_auth, with the log of the
\* outer except clause when an exception arrives there
SetAuthExit ==
    /\ wpc = "closing"
    /\ wpc' = "idle"
    /\ wsession' = "closed"
    /\ wlog' = IF SetAuthRaised THEN Log("error", "exception", 0) ELSE wlog
    /\ wresult' = IF ~SetAuthRaised /\ wresp.status = 200 THEN "ok" ELSE "failed"
    /\ UNCHANGED <<attr_is_on, coordinator, coordData, subscribed, addPc, rcalls, rresp, rraised,
                   lastPush, credentials, entryData, wenable, wprior, wgen, wcalls, wresp,
                   nWrites, nPush, pushedInWrite, rsession>>
    /\ UNCHANGED <<sensorVars, setupVars>>
    /\ UNCHANGED peerVars

\* ---------------------------------------------------- Connectivity Reporter
None == "<None>"
Peer == "192.168.1.10:5683"
WsServer == "wss://example/ws"

\* configuration bodies: the section is "coiot" (Gen1) or "ws" (Gen2/3), the value is
\* its "peer" or "server"
NoConfig == [t |-> "none", section |-> Absent, value |-> Absent]
ConfigBodies(addr) ==
    {[t |-> "bad", section |-> Absent, value |-> Absent],
     [t |-> "obj", section |-> Absent, value |-> Absent],
     [t |-> "obj", section |-> Null, value |-> Absent]}
    \cup [t : {"obj"}, section : {"obj"}, value : {Absent, Null, "", addr}]
ConfigResponses(addr) ==
    {[kind |-> "exc", status |-> 0, body |-> NoConfig]}
    \cup {[kind |-> "http", status |-> s, body |-> NoConfig] : s \in {401, 404}}
    \cup {[kind |-> "http", status |-> 200, body |-> b] : b \in ConfigBodies(addr)}
NoConfigResponse == [kind |-> "none", status |-> 0, body |-> NoConfig]

\* _detect_generation: the value it returns
detect_generation(resp) ==
    IF resp.kind = "http" /\ resp.status = 200 /\ resp.body.t = "obj"
       /\ resp.body.gen.t # Absent
    THEN resp.body.gen
    ELSE [t |-> "int", v |-> 1]

SettingsRequest(data) == Request("GET", "/settings", NoPayload, ReaderAuth(data))
GetConfigRequest(data) == Request("POST", "/rpc/Sys.GetConfig", EmptyJson, ReaderAuth(data))

\* an exception leaves the `async with session.get/post` block of a loader
ConfigRaises(resp) ==
    \/ resp.kind = "exc"
    \/ resp.kind = "http" /\ resp.status = 200
       /\ (resp.body.t # "obj" \/ resp.body.section = Null)

\* mutant: only an empty peer string counts as multicast, a missing peer does not
load_gen1_coiot_noabsent(resp, cur) ==
    IF resp.status = 200
    THEN IF resp.body.section # Absent /\ resp.body.value = ""
         THEN "CoIoT: mcast (multicast)"
         ELSE "CoIoT: unicast " \o resp.body.value
    ELSE IF resp.status = 401 THEN "CoIoT: Unknown (auth required)"
    ELSE cur

\* _load_gen1_coiot: the value of _attr_native_value when no exception is raised
load_gen1_coiot(resp, cur) ==
    IF resp.status = 200
    THEN IF resp.body.section = Absent \/ resp.body.value \in {Absent, Null, ""}
         THEN "CoIoT: mcast (multicast)"
         ELSE "CoIoT: unicast " \o resp.body.value
    ELSE IF resp.status = 401 THEN "CoIoT: Unknown (auth required)"
    ELSE cur

\* _load_gen2_websocket: the value of _attr_native_value after the call
load_gen2_websocket(resp, cur) ==
    IF ConfigRaises(resp) THEN "WebSocket: Auto-discovery (mDNS)"
    ELSE IF resp.status = 200
    THEN IF resp.body.section = Absent \/ resp.body.value \in {Absent, Null, ""}
         THEN "WebSocket: Not configured (uses mDNS)"
         ELSE "WebSocket: " \o resp.body.value
    ELSE IF resp.status = 401 THEN "WebSocket: Unknown (auth required)"
    ELSE cur

\* mutant: the sensor sends on the session the switch of its device constructed for its
\* poll instead of constructing its own
load_connectivity_config_shared ==
    /\ spc = "new"
    /\ scalls' = <<On(Session(sensors[1].host, "_check_auth_status", nSetups), ProbeRequest)>>
    /\ spc' = "probe"
    /\ ssession' = "open"
    /\ UNCHANGED <<sgen, sresp, cresp, native_value, sraised>>
    /\ UNCHANGED <<switchVars, setupVars>>
    /\ UNCHANGED peerVars

\* ShellyConnectivitySensor.async_added_to_hass up to the await in _detect_generation
load_connectivity_config ==
    /\ spc = "new"
    /\ scalls' = <<On(Session(sensors[1].host, "_load_connectivity_config", nSetups),
                     ProbeRequest)>>
    /\ spc' = "probe"
    /\ ssession' = "open"
    /\ UNCHANGED <<sgen, sresp, cresp, native_value, sraised>>
    /\ UNCHANGED <<switchVars, setupVars>>
    /\ UNCHANGED peerVars

\* the answer to the probe arrives: _detect_generation returns and the loader is chosen
DetectReturn ==
    /\ spc = "probe"
    /\ \E resp \in ProbeResponses :
          LET gen == detect_generation(resp)
          IN /\ sresp' = resp
             /\ sgen' = gen
             /\ IF ~Comparable(gen)
                THEN /\ spc' = "closing"
                     /\ UNCHANGED <<scalls, native_value>>
                ELSE IF gen.v >= 2
                THEN /\ scalls' = Append(scalls, On(scalls[1].session, GetConfigRequest(entryData)))
                     /\ spc' = "gen2"
                     /\ UNCHANGED native_value
                ELSE /\ scalls' = Append(scalls, On(scalls[1].session, SettingsRequest(entryData)))
                     /\ spc' = "gen1"
                     /\ UNCHANGED native_value
    /\ UNCHANGED <<cresp, sraised, ssession>>
    /\ UNCHANGED <<switchVars, setupVars>>
    /\ UNCHANGED peerVars

\* the answer to GET /settings arrives: _load_gen1_coiot up to the exits of the `async
\* with` blocks, which are awaits that follow the assignment
Gen1Return ==
    /\ spc = "gen1"
    /\ \E resp \in ConfigResponses(Peer) :
          /\ cresp' = resp
          /\ native_value' = IF ConfigRaises(resp) THEN native_value
                             ELSE load_gen1_coiot(resp, native_value)
    /\ spc' = "closing"
    /\ UNCHANGED <<sgen, scalls, sresp, sraised, ssession>>
    /\ UNCHANGED <<switchVars, setupVars>>
    /\ UNCHANGED peerVars

\* the answer to POST /rpc/Sys.GetConfig arrives: _load_gen2_websocket, its except clause
\* included, up to the exit of the session
Gen2Return ==
    /\ spc = "gen2"
    /\ \E resp \in ConfigResponses(WsServer) :
          /\ cresp' = resp
          /\ native_value' = load_gen2_websocket(resp, native_value)
    /\ spc' = "closing"
    /\ UNCHANGED <<sgen, scalls, sresp, sraised, ssession>>
    /\ UNCHANGED <<switchVars, setupVars>>
    /\ UNCHANGED peerVars

\* an exception is on its way to the except clause of _load_connectivity_config: `gen >= 2`
\* raised or _load_gen1_coiot raised (_load_gen2_websocket catches its own)
LoadConnectivityRaised ==
    \/ ~Comparable(sgen)
    \/ sgen.v < 2 /\ ConfigRaises(cresp)

\* the response and the session are closed: the rest of _load_connectivity_config, with
\* the assignment of its except clause when an exception arrives there
LoadConnectivityExit ==
    /\ spc = "closing"
    /\ spc' = IF sensors = <<>> THEN "none" ELSE "done"
    /\ ssession' = "closed"
    /\ native_value' = IF LoadConnectivityRaised THEN "Unknown" ELSE native_value
    /\ UNCHANGED <<sgen, scalls, sresp, cresp, sraised>>
    /\ UNCHANGED <<switchVars, setupVars>>
    /\ UNCHANGED peerVars

\* ---------------------------------------------------------- Integration setup
Host1 == "10.0.0.1"
Host2 == "10.0.0.2"

\* a config entry a device refers to: its domain, data.get("host") ("" when the key is
\* missing or empty) and the coordinator hass.data["shelly"] holds for it
OtherEntry == [domain |-> "other", host |-> "", coordinator |-> "none"]
ShellyEntry(host, coord) == [domain |-> "shelly", host |-> host, coordinator |-> coord]
ConfigEntries == {OtherEntry} \cup {ShellyEntry(h, "none") : h \in {"", Host1, Host2}}
\* device.config_entries in iteration order
EntryLists == UNION {[1..n -> ConfigEntries] : n \in 0..2}
\* a device of the registry: identifiers (non-empty or not) and its config entries
Devices == [identifiers : BOOLEAN, config_entries : EntryLists]
Registries == UNION {[1..n -> Devices] : n \in 0..MaxDevices}

\* hass.data[DOMAIN] has no item for the entry
NoHassData == [username |-> "<unset>", password |-> "<unset>"]
\* what the options form submits: both fields are required strings
UserInputs == {[username |-> "svc", password |-> ""], [username |-> "ops", password |-> "pw2"]}
\* {**data, **user_input}
Merge(data, user_input) ==
    [k \in {"username", "password"} |-> IF user_input[k] # Absent THEN user_input[k] ELSE data[k]]

\* the inner loop of both platforms: it stops at the first config entry of the device whose
\* domain is "shelly" (0: the device has none)
RECURSIVE first_shelly_entry(_, _)
first_shelly_entry(entries, k) ==
    IF k > Len(entries) THEN 0
    ELSE IF entries[k].domain = "shelly" THEN k
    ELSE first_shelly_entry(entries, k + 1)

FoundHosts(shelly_devices) == {shelly_devices[j].host : j \in 1..Len(shelly_devices)}

\* switch.async_setup_entry, the loop over the registry: shelly_devices in insertion order
RECURSIVE switch_shelly_devices(_, _, _)
switch_shelly_devices(reg, i, shelly_devices) ==
    IF i > Len(reg) THEN shelly_devices
    ELSE LET device == reg[i]
             k == first_shelly_entry(device.config_entries, 1)
             host == device.config_entries[k].host
         IN IF ~device.identifiers THEN switch_shelly_devices(reg, i + 1, shelly_devices)
            ELSE IF k = 0 THEN switch_shelly_devices(reg, i + 1, shelly_devices)
            ELSE IF host = "" THEN switch_shelly_devices(reg, i + 1, shelly_devices)
            ELSE IF host \in FoundHosts(shelly_devices)
                 THEN switch_shelly_devices(reg, i + 1, shelly_devices)
            ELSE switch_shelly_devices(reg, i + 1,
                     Append(shelly_devices,
                            [device |-> i, host |-> host,
                             coordinator |-> device.config_entries[k].coordinator]))

\* sensor.async_setup_entry, the loop over the registry
RECURSIVE sensor_shelly_devices(_, _, _)
sensor_shelly_devices(reg, i, shelly_devices) ==
    IF i > Len(reg) THEN shelly_devices
    ELSE LET device == reg[i]
             k == first_shelly_entry(device.config_entries, 1)
             host == device.config_entries[k].host
         IN IF ~device.identifiers THEN sensor_shelly_devices(reg, i + 1, shelly_devices)
            ELSE IF k = 0 THEN sensor_shelly_devices(reg, i + 1, shelly_devices)
            ELSE IF host # "" /\ host \notin FoundHosts(shelly_devices)
                 THEN sensor_shelly_devices(reg, i + 1,
                          Append(shelly_devices, [device |-> i, host |-> host]))
            ELSE sensor_shelly_devices(reg, i + 1, shelly_devices)

\* the entities list of sensor.async_setup_entry: an IP sensor and a connectivity sensor
\* for each device_info
sensor_entities(shelly_devices) ==
    [j \in 1..(2 * Len(shelly_devices)) |->
        [kind |-> IF j % 2 = 1 THEN "ip" ELSE "connectivity",
         device |-> shelly_devices[(j + 1) \div 2].device,
         host |-> shelly_devices[(j + 1) \div 2].host]]

\* the integration's async_setup_entry up to the await that forwards to the platforms
setup_entry ==
    /\ entryState = "not_loaded"
    /\ nSetups < MaxSetups
    /\ nSetups' = nSetups + 1
    /\ entryState' = "setup"
    /\ hassData' = configData
    /\ setupData' = configData
    /\ platforms' = {}
    /\ UNCHANGED <<registry, configData, switches, sensors, nOptions, writesAtOptions>>
    /\ UNCHANGED <<switchVars, sensorVars>>
    /\ UNCHANGED peerVars

\* async_forward_entry_setups returns once both platforms are set up, and
\* async_setup_entry returns True
setup_entry_return ==
    /\ entryState = "setup"
    /\ platforms = {"switch", "sensor"}
    /\ entryState' = "loaded"
    /\ UNCHANGED <<registry, configData, hassData, platforms, switches, sensors, nSetups,
                   nOptions, setupData, writesAtOptions>>
    /\ UNCHANGED <<switchVars, sensorVars>>
    /\ UNCHANGED peerVars

\* switch.async_setup_entry; the first ShellyAuthSwitch it constructs is the switch the
\* other actions follow; the data of its coordinator is whatever the Shelly integration
\* holds there; of the second ShellyAuthSwitch the attach-time read is followed
switch_setup_entry ==
    /\ entryState = "setup"
    /\ "switch" \notin platforms
    /\ platforms' = platforms \cup {"switch"}
    /\ switches' = switch_shelly_devices(registry, 1, <<>>)
    /\ IF switches' = <<>>
       THEN UNCHANGED switchVars
       ELSE /\ credentials' = hassData
            /\ coordinator' = switches'[1].coordinator
            /\ coordData' \in (IF coordinator' = "feed" THEN FeedData ELSE {NoData})
            /\ attr_is_on' = "unknown"
            /\ addPc' = "new"
            /\ subscribed' = FALSE
            /\ rcalls' = <<>>
            /\ rresp' = NoResponse
            /\ rraised' = FALSE
            /\ lastPush' = "none"
            /\ wpc' = "idle"
            /\ wenable' = FALSE
            /\ wprior' = "unknown"
            /\ wgen' = 0
            /\ wcalls' = <<>>
            /\ wresp' = NoResponse
            /\ wresult' = "none"
            /\ wlog' = NoLog
            /\ pushedInWrite' = FALSE
            /\ rsession' = "none"
            /\ wsession' = "none"
            /\ UNCHANGED <<entryData, nWrites, nPush>>
    /\ IF Len(switches') >= 2
       THEN /\ peerPc' = "new"
            /\ peer_attr_is_on' = "unknown"
            /\ peerCalls' = <<>>
            /\ peerSession' = "none"
       ELSE UNCHANGED <<peerPc, peer_attr_is_on, peerCalls, peerSession>>
    /\ others' = IF switches' = <<>> THEN others ELSE {}
    /\ UNCHANGED nPeerWrites
    /\ UNCHANGED <<registry, configData, hassData, sensors, nSetups, nOptions, entryState,
                   setupData, writesAtOptions>>
    /\ UNCHANGED sensorVars

\* sensor.async_setup_entry; the first ShellyConnectivitySensor it constructs is the
\* sensor the other actions follow
sensor_setup_entry ==
    /\ entryState = "setup"
    /\ "sensor" \notin platforms
    /\ platforms' = platforms \cup {"sensor"}
    /\ sensors' = sensor_entities(sensor_shelly_devices(registry, 1, <<>>))
    /\ IF sensors' = <<>>
       THEN UNCHANGED sensorVars
       ELSE /\ spc' = "new"
            /\ sgen' = [t |-> Absent, v |-> 0]
            /\ scalls' = <<>>
            /\ sresp' = NoResponse
            /\ cresp' = NoConfigResponse
            /\ native_value' = None
            /\ sraised' = FALSE
            /\ ssession' = "none"
    /\ UNCHANGED <<registry, configData, hassData, switches, nSetups, nOptions, entryState,
                   setupData, writesAtOptions>>
    /\ UNCHANGED switchVars
    /\ UNCHANGED peerVars

\* mutant: the options flow updates the mapping in place, so every holder of it sees the
\* new credentials
async_step_init_inplace ==
    /\ nOptions < MaxOptions
    /\ nOptions' = nOptions + 1
    /\ writesAtOptions' = nWrites
    /\ \E user_input \in UserInputs :
          /\ configData' = Merge(configData, user_input)
          /\ hassData' = IF hassData = NoHassData THEN hassData ELSE configData'
          /\ credentials' = IF switches = <<>> THEN credentials ELSE configData'
    /\ UNCHANGED <<registry, platforms, switches, sensors, nSetups, entryState, setupData>>
    /\ UNCHANGED <<attr_is_on, coordinator, coordData, subscribed, addPc, rcalls, rresp, rraised,
                   lastPush, entryData, wpc, wenable, wprior, wgen, wcalls, wresp,
                   wresult, wlog, nWrites, nPush, pushedInWrite, rsession, wsession>>
    /\ UNCHANGED sensorVars
    /\ UNCHANGED peerVars

\* ShellyServicesOptionsFlow.async_step_init with user input: the entry gets a new data
\* mapping; the mapping stored in hass.data and held by the switch is another object
async_step_init ==
    /\ nOptions < MaxOptions
    /\ nOptions' = nOptions + 1
    /\ writesAtOptions' = nWrites
    /\ \E user_input \in UserInputs :
          /\ configData' = Merge(configData, user_input)
          /\ hassData' = hassData
          /\ credentials' = credentials
    /\ UNCHANGED <<registry, platforms, switches, sensors, nSetups, entryState, setupData>>
    /\ UNCHANGED <<attr_is_on, coordinator, coordData, subscribed, addPc, rcalls, rresp, rraised,
                   lastPush, entryData, wpc, wenable, wprior, wgen, wcalls, wresp,
                   wresult, wlog, nWrites, nPush, pushedInWrite, rsession, wsession>>
    /\ UNCHANGED sensorVars
    /\ UNCHANGED peerVars

\* async_unload_entry up to the return of `await async_unload_platforms`: with unload_ok
\* the platform has removed the entities (and with them the coordinator listener of the
\* switch), without it nothing is unloaded and the handler returns False; a coroutine
\* that awaits the device goes on for the removed entity
async_unload_entry ==
    /\ entryState = "loaded"
    /\ \E unload_ok \in BOOLEAN :
          IF unload_ok
          THEN /\ entryState' = "unloading"
               /\ platforms' = {}
               /\ switches' = <<>>
               /\ sensors' = <<>>
               /\ addPc' = IF addPc \in {"polling", "closing"} THEN addPc ELSE "none"
               /\ subscribed' = FALSE
               /\ spc' = IF spc \in {"probe", "gen1", "gen2", "closing"} THEN spc ELSE "none"
               /\ UNCHANGED <<registry, configData, hassData, nSetups, nOptions, setupData,
                              writesAtOptions>>
               /\ UNCHANGED <<attr_is_on, coordinator, coordData, rcalls, rresp, rraised,
                              lastPush, credentials, entryData, wpc, wenable, wprior, wgen,
                              wcalls, wresp, wresult, wlog, nWrites, nPush, pushedInWrite,
                              rsession, wsession>>
               /\ UNCHANGED <<sgen, scalls, sresp, cresp, native_value, sraised, ssession>>
               /\ peerPc' = IF peerPc \in {"polling", "closing"} THEN peerPc ELSE "none"
               /\ UNCHANGED <<peer_attr_is_on, peerCalls, peerSession, nPeerWrites, others>>
          ELSE UNCHANGED vars

\* async_unload_entry after the await, with unload_ok: the item of hass.data is popped
async_unload_entry_pop ==
    /\ entryState = "unloading"
    /\ entryState' = "not_loaded"
    /\ hassData' = NoHassData
    /\ UNCHANGED <<registry, configData, platforms, switches, sensors, nSetups, nOptions,
                   setupData, writesAtOptions>>
    /\ UNCHANGED <<switchVars, sensorVars>>
    /\ UNCHANGED peerVars

\* ------------------------------------------- the switch of a second device
\* the data of the second device's Shelly entry (its reader credentials)
PeerEntryData == [username |-> "rd2", password |-> "rp2"]

\* async_added_to_hass of the second ShellyAuthSwitch, up to its first await (or to its
\* end when the device has a feed, whose data is whatever the Shelly integration holds)
peer_added_to_hass ==
    /\ peerPc = "new"
    /\ IF switches[2].coordinator = "feed"
       THEN /\ \E d \in FeedData :
                  peer_attr_is_on' = update_from_coordinator("feed", d, peer_attr_is_on)
            /\ peerPc' = "added"
            /\ UNCHANGED <<peerCalls, peerSession>>
       ELSE /\ peerSession' = "open"
            /\ peerCalls' = <<On(Session(switches[2].host, "_check_auth_status", nSetups),
                                 CheckAuthRequest(PeerEntryData))>>
            /\ peerPc' = "polling"
            /\ UNCHANGED peer_attr_is_on
    /\ UNCHANGED <<nPeerWrites, others>>
    /\ UNCHANGED <<switchVars, sensorVars, setupVars>>

\* the answer to the poll of the second switch arrives
PeerCheckAuthReturn ==
    /\ peerPc = "polling"
    /\ \E resp \in PollResponses :
          peer_attr_is_on' = check_auth_status(resp, peer_attr_is_on)
    /\ peerPc' = "closing"
    /\ UNCHANGED <<peerCalls, peerSession, nPeerWrites, others>>
    /\ UNCHANGED <<switchVars, sensorVars, setupVars>>

\* the response and the session of the second switch's poll are closed
PeerCheckAuthExit ==
    /\ peerPc = "closing"
    /\ peerPc' = IF Len(switches) < 2 THEN "none" ELSE "added"
    /\ peerSession' = "closed"
    /\ UNCHANGED <<peer_attr_is_on, peerCalls, nPeerWrites, others>>
    /\ UNCHANGED <<switchVars, sensorVars, setupVars>>

\* _set_auth of the second ShellyAuthSwitch from its entry to its first await (or to the
\* early return): both switches hold the writer credentials of the integration entry
peer_set_auth(enable) ==
    /\ Len(switches) >= 2
    /\ peerPc \in {"polling", "closing", "added"}
    /\ nPeerWrites < MaxPeerWrites
    /\ nPeerWrites' = nPeerWrites + 1
    /\ others' = IF PasswordMissing(credentials)
                 THEN others
                 ELSE others \cup
                      {SetAuthRun(2, nPeerWrites', enable, "probe",
                                  <<On(Session(switches[2].host, "_set_auth", nPeerWrites'),
                                       ProbeRequest)>>,
                                  NoResponse)}
    /\ UNCHANGED <<peerPc, peer_attr_is_on, peerCalls, peerSession>>
    /\ UNCHANGED <<switchVars, sensorVars, setupVars>>

peer_turn_on == peer_set_auth(TRUE)

peer_turn_off == peer_set_auth(FALSE)

\* ------------------------------------------- the other writes in flight
\* the answer to the probe of an overlapped _set_auth arrives
OtherProbeReturn ==
    /\ \E o \in others :
          /\ o.pc = "probe"
          /\ \E resp \in ProbeResponses :
                LET gen == SetAuthGen(resp)
                IN others' = (others \ {o}) \cup
                      {IF Comparable(gen)
                       THEN [o EXCEPT !.pc = "mutate",
                                      !.calls = Append(o.calls,
                                                       On(o.calls[1].session,
                                                          SetAuthRequest(gen.v, o.enable,
                                                                         credentials)))]
                       ELSE [o EXCEPT !.pc = "closing"]}
    /\ UNCHANGED <<peerPc, peer_attr_is_on, peerCalls, peerSession, nPeerWrites>>
    /\ UNCHANGED <<switchVars, sensorVars, setupVars>>

\* the answer to the mutation call of an overlapped _set_auth arrives: the assignment to
\* _attr_is_on of the entity the coroutine runs on
OtherMutationReturn ==
    /\ \E o \in others :
          /\ o.pc = "mutate"
          /\ \E resp \in MutationResponses :
                /\ others' = (others \ {o}) \cup {[o EXCEPT !.pc = "closing", !.resp = resp]}
                /\ IF o.switch = 1
                   THEN /\ attr_is_on' = set_auth_state(resp, o.enable, attr_is_on)
                        /\ UNCHANGED peer_attr_is_on
                   ELSE /\ peer_attr_is_on' = set_auth_state(resp, o.enable, peer_attr_is_on)
                        /\ UNCHANGED attr_is_on
    /\ UNCHANGED <<coordinator, coordData, subscribed, addPc, rcalls, rresp, rraised, lastPush,
                   credentials, entryData, wpc, wenable, wprior, wgen, wcalls, wresp, wresult,
                   wlog, nWrites, nPush, pushedInWrite, rsession, wsession>>
    /\ UNCHANGED <<peerPc, peerCalls, peerSession, nPeerWrites>>
    /\ UNCHANGED <<sensorVars, setupVars>>

\* the response and the session of an overlapped _set_auth are closed and the coroutine
\* has ended
OtherExit ==
    /\ \E o \in others :
          /\ o.pc = "closing"
          /\ others' = others \ {o}
    /\ UNCHANGED <<peerPc, peer_attr_is_on, peerCalls, peerSession, nPeerWrites>>
    /\ UNCHANGED <<switchVars, sensorVars, setupVars>>

\* ------------------------------------------------------------ specification
\* a switch just constructed, of any kind of device and with any credentials, that has
\* taken writes _set_auth invocations
InitSwitchAt(writes) ==
    /\ attr_is_on = "unknown"
    /\ coordinator \in {"none", "nodata", "feed"}
    /\ coordData \in (IF coordinator = "feed" THEN FeedData ELSE {NoData})
    /\ subscribed = FALSE
    /\ addPc = "new"
    /\ rcalls = <<>>
    /\ rresp = NoResponse
    /\ rraised = FALSE
    /\ lastPush = "none"
    /\ credentials \in WriterCredentials
    /\ entryData \in ReaderData
    /\ wpc = "idle"
    /\ wenable = FALSE
    /\ wprior = "unknown"
    /\ wgen = 0
    /\ wcalls = <<>>
    /\ wresp = NoResponse
    /\ wresult = "none"
    /\ wlog = NoLog
    /\ nWrites = writes
    /\ nPush = 0
    /\ pushedInWrite = FALSE
    /\ rsession = "none"
    /\ wsession = "none"

\* such a switch that may take one write
InitSwitch == InitSwitchAt(MaxWrites - 1)

\* a switch that may take two writes, which may overlap: a device without coordinator or
\* with a feed, one choice of credentials
InitTwoWrites ==
    /\ InitSwitchAt(MaxWrites - 2)
    /\ coordinator \in {"none", "feed"}
    /\ credentials = [username |-> "svc", password |-> "pw"]
    /\ entryData = [username |-> "rd", password |-> "rp"]

\* no second switch exists
InitNoPeer ==
    /\ peerPc = "none"
    /\ peer_attr_is_on = "unknown"
    /\ peerCalls = <<>>
    /\ peerSession = "none"
    /\ nPeerWrites = 0
    /\ others = {}

InitSensor ==
    /\ spc = "new"
    /\ sgen = [t |-> Absent, v |-> 0]
    /\ scalls = <<>>
    /\ sresp = NoResponse
    /\ cresp = NoConfigResponse
    /\ native_value = None
    /\ sraised = FALSE
    /\ ssession = "none"

\* the state after both platforms are set up over a registry with one Shelly device, the
\* entities not yet added
InitInstalled ==
    /\ registry = <<[identifiers |-> TRUE,
                     config_entries |-> <<ShellyEntry(Host1, coordinator)>>]>>
    /\ configData = credentials
    /\ hassData = credentials
    /\ platforms = {"switch", "sensor"}
    /\ switches = switch_shelly_devices(registry, 1, <<>>)
    /\ sensors = sensor_entities(sensor_shelly_devices(registry, 1, <<>>))
    /\ nSetups = 1
    /\ nOptions = 0
    /\ entryState = "setup"
    /\ setupData = credentials
    /\ writesAtOptions = 0

Init == (InitSwitch \/ InitTwoWrites) /\ InitSensor /\ InitInstalled /\ InitNoPeer

\* the authentication switch of one device
Next ==
    \/ async_added_to_hass
    \/ CheckAuthReturn
    \/ CheckAuthExit
    \/ handle_coordinator_update
    \/ async_turn_on
    \/ async_turn_off
    \/ SetAuthProbeReturn
    \/ SetAuthMutationReturn
    \/ SetAuthExit
    \/ OtherProbeReturn
    \/ OtherMutationReturn
    \/ OtherExit

Spec == Init /\ [][Next]_vars

\* the connectivity sensor of one device
NextSensor ==
    \/ load_connectivity_config
    \/ DetectReturn
    \/ Gen1Return
    \/ Gen2Return
    \/ LoadConnectivityExit

SpecSensor == Init /\ [][NextSensor]_vars

\* the switch platform is set up and the sensor platform is not yet: the switch is
\* constructed, no sensor is
InitSwitchInstalled ==
    /\ registry = <<[identifiers |-> TRUE,
                     config_entries |-> <<ShellyEntry(Host1, coordinator)>>]>>
    /\ configData = credentials
    /\ hassData = credentials
    /\ platforms = {"switch"}
    /\ switches = switch_shelly_devices(registry, 1, <<>>)
    /\ sensors = <<>>
    /\ nSetups = 1
    /\ nOptions = 0
    /\ entryState = "setup"
    /\ setupData = credentials
    /\ writesAtOptions = 0
    /\ spc = "none"
    /\ sgen = [t |-> Absent, v |-> 0]
    /\ scalls = <<>>
    /\ sresp = NoResponse
    /\ cresp = NoConfigResponse
    /\ native_value = None
    /\ sraised = FALSE
    /\ ssession = "none"

\* a switch just constructed, not yet added to hass
InitUnread ==
    /\ attr_is_on = "unknown"
    /\ addPc = "new"
    /\ rcalls = <<>>
    /\ rresp = NoResponse
    /\ rsession = "none"

\* a switch whose poll was answered with HTTP 401 and has ended before anything else ran
InitPollEnded ==
    /\ attr_is_on = check_auth_status(Http(401, NoBody), "unknown")
    /\ addPc = "added"
    /\ rcalls = <<On(Session(Host1, "_check_auth_status", 1), CheckAuthRequest(entryData))>>
    /\ rresp = Http(401, NoBody)
    /\ rsession = "closed"

\* a switch of a device without coordinator (no listener is ever registered) on which
\* _set_auth has not run
InitWriter ==
    /\ coordinator = "none"
    /\ coordData = NoData
    /\ subscribed = FALSE
    /\ rraised = FALSE
    /\ lastPush = "none"
    /\ wpc = "idle"
    /\ wenable = FALSE
    /\ wprior = "unknown"
    /\ wgen = 0
    /\ wcalls = <<>>
    /\ wresp = NoResponse
    /\ wresult = "none"
    /\ wlog = NoLog
    /\ nPush = 0
    /\ pushedInWrite = FALSE
    /\ wsession = "none"

\* such a switch that may take one write
InitOneWrite ==
    /\ InitWriter
    /\ nWrites = MaxWrites - 1

\* the polled read, one write and the describe of one device, all three interleaved
InitTriple ==
    /\ InitOneWrite
    /\ InitUnread
    /\ credentials = [username |-> "svc", password |-> "pw"]
    /\ entryData = [username |-> "rd", password |-> "rp"]
    /\ InitSensor
    /\ InitInstalled

\* any two of the three operations interleaved: the polled read and a write before the
\* sensor exists; a write and the describe after the poll has ended; the polled read and
\* the describe with an empty writer password (every write is rejected at once)
InitPairs ==
    /\ InitOneWrite
    /\ \/ /\ InitUnread
          /\ credentials \in {c \in WriterCredentials : c.password = "pw"}
          /\ entryData \in ReaderData
          /\ InitSwitchInstalled
       \/ /\ credentials \in {c \in WriterCredentials : c.password = "pw"}
          /\ entryData \in ReaderData
          /\ InitPollEnded
          /\ InitSensor
          /\ InitInstalled
       \/ /\ InitUnread
          /\ credentials = [username |-> "svc", password |-> ""]
          /\ entryData \in ReaderData
          /\ InitSensor
          /\ InitInstalled

InitOps == (InitTriple \/ InitPairs) /\ InitNoPeer

\* the operations on a device without coordinator: _handle_coordinator_update is never
\* called, async_added_to_hass having registered no listener
NextOps ==
    \/ async_added_to_hass
    \/ CheckAuthReturn
    \/ CheckAuthExit
    \/ async_turn_on
    \/ async_turn_off
    \/ SetAuthProbeReturn
    \/ SetAuthMutationReturn
    \/ SetAuthExit
    \/ load_connectivity_config
    \/ DetectReturn
    \/ Gen1Return
    \/ Gen2Return
    \/ LoadConnectivityExit

SpecOps == InitOps /\ [][NextOps]_vars

\* every request carries a ClientTimeout (switch.py:202, 269, 300, 344; sensor.py:144,
\* 164, 198): an awaited call ends, with an answer or with a timeout exception; closing a
\* response or a session waits for no peer
Fairness ==
    /\ WF_vars(CheckAuthReturn)
    /\ WF_vars(SetAuthProbeReturn)
    /\ WF_vars(SetAuthMutationReturn)
    /\ WF_vars(DetectReturn)
    /\ WF_vars(Gen1Return)
    /\ WF_vars(Gen2Return)
    /\ WF_vars(CheckAuthExit)
    /\ WF_vars(SetAuthExit)
    /\ WF_vars(LoadConnectivityExit)

InitLive ==
    /\ InitPairs
    /\ InitNoPeer
    /\ credentials.username = "svc"
    /\ entryData = [username |-> "rd", password |-> "rp"]

SpecLive == InitLive /\ [][NextOps]_vars /\ Fairness

\* a registry with two Shelly devices, neither with a coordinator
TwoDevices ==
    <<[identifiers |-> TRUE, config_entries |-> <<ShellyEntry(Host1, "none")>>],
      [identifiers |-> TRUE, config_entries |-> <<ShellyEntry(Host2, "none")>>]>>

\* the second switch after its poll was answered with HTTP 401 and has ended, taking no
\* write
InitPeerQuiet ==
    /\ peerPc = "added"
    /\ peer_attr_is_on = check_auth_status(Http(401, NoBody), "unknown")
    /\ peerCalls = <<On(Session(Host2, "_check_auth_status", 1),
                        CheckAuthRequest(PeerEntryData))>>
    /\ peerSession = "closed"
    /\ nPeerWrites = MaxPeerWrites

\* the second switch just constructed, that may take one write
InitPeerNew ==
    /\ peerPc = "new"
    /\ peer_attr_is_on = "unknown"
    /\ peerCalls = <<>>
    /\ peerSession = "none"
    /\ nPeerWrites = MaxPeerWrites - 1

\* no sensor was constructed
InitNoSensor ==
    /\ platforms = {"switch"}
    /\ sensors = <<>>
    /\ spc = "none"
    /\ sgen = [t |-> Absent, v |-> 0]
    /\ scalls = <<>>
    /\ sresp = NoResponse
    /\ cresp = NoConfigResponse
    /\ native_value = None
    /\ sraised = FALSE
    /\ ssession = "none"

\* the sensors of the first device just constructed
InitDescribe ==
    /\ platforms = {"switch", "sensor"}
    /\ sensors = sensor_entities(sensor_shelly_devices(registry, 1, <<>>))
    /\ InitSensor

\* two devices without coordinator. The operations of the first device two by two while
\* the second switch is quiet: the polled read and two writes, which may overlap; a write
\* and the describe; the polled read and the describe with an empty writer password.
\* The polled read and a write of the second switch against an operation of the first:
\* its write, its polled read, its describe.
InitSessions ==
    /\ InitWriter
    /\ entryData = [username |-> "rd", password |-> "rp"]
    /\ registry = TwoDevices
    /\ switches = switch_shelly_devices(registry, 1, <<>>)
    /\ \/ /\ credentials = [username |-> "svc", password |-> "pw"]
          /\ nWrites = MaxWrites - 2
          /\ InitUnread
          /\ InitNoSensor
          /\ InitPeerQuiet
       \/ /\ credentials = [username |-> "svc", password |-> "pw"]
          /\ nWrites = MaxWrites - 1
          /\ InitPollEnded
          /\ InitDescribe
          /\ InitPeerQuiet
       \/ /\ credentials = [username |-> "svc", password |-> ""]
          /\ nWrites = MaxWrites - 1
          /\ InitUnread
          /\ InitDescribe
          /\ InitPeerQuiet
       \/ /\ credentials = [username |-> "svc", password |-> "pw"]
          /\ nWrites = MaxWrites - 1
          /\ InitPollEnded
          /\ InitNoSensor
          /\ InitPeerNew
       \/ /\ credentials = [username |-> "svc", password |-> "pw"]
          /\ nWrites = MaxWrites
          /\ InitUnread
          /\ InitNoSensor
          /\ InitPeerNew
       \/ /\ credentials = [username |-> "svc", password |-> "pw"]
          /\ nWrites = MaxWrites
          /\ InitPollEnded
          /\ InitDescribe
          /\ InitPeerNew
    /\ others = {}
    /\ configData = credentials
    /\ hassData = credentials
    /\ nSetups = 1
    /\ nOptions = 0
    /\ entryState = "setup"
    /\ setupData = credentials
    /\ writesAtOptions = 0

NextSessions ==
    \/ async_added_to_hass
    \/ CheckAuthReturn
    \/ CheckAuthExit
    \/ async_turn_on
    \/ async_turn_off
    \/ SetAuthProbeReturn
    \/ SetAuthMutationReturn
    \/ SetAuthExit
    \/ load_connectivity_config
    \/ DetectReturn
    \/ Gen1Return
    \/ Gen2Return
    \/ LoadConnectivityExit
    \/ peer_added_to_hass
    \/ PeerCheckAuthReturn
    \/ PeerCheckAuthExit
    \/ peer_turn_on
    \/ peer_turn_off
    \/ OtherProbeReturn
    \/ OtherMutationReturn
    \/ OtherExit

SpecSessions == InitSessions /\ [][NextSessions]_vars

\* the state before the first setup: no entity has been constructed
InitAbsent ==
    /\ attr_is_on = "unknown"
    /\ coordinator = "none"
    /\ coordData = NoData
    /\ subscribed = FALSE
    /\ addPc = "none"
    /\ rcalls = <<>>
    /\ rresp = NoResponse
    /\ rraised = FALSE
    /\ lastPush = "none"
    /\ credentials = NoHassData
    /\ wpc = "idle"
    /\ wenable = FALSE
    /\ wprior = "unknown"
    /\ wgen = 0
    /\ wcalls = <<>>
    /\ wresp = NoResponse
    /\ wresult = "none"
    /\ wlog = NoLog
    /\ nPush = 0
    /\ pushedInWrite = FALSE
    /\ rsession = "none"
    /\ wsession = "none"
    /\ spc = "none"
    /\ sgen = [t |-> Absent, v |-> 0]
    /\ scalls = <<>>
    /\ sresp = NoResponse
    /\ cresp = NoConfigResponse
    /\ native_value = None
    /\ sraised = FALSE
    /\ ssession = "none"
    /\ hassData = NoHassData
    /\ platforms = {}
    /\ switches = <<>>
    /\ sensors = <<>>
    /\ nSetups = 0
    /\ nOptions = 0
    /\ entryState = "not_loaded"
    /\ setupData = NoHassData
    /\ writesAtOptions = 0
    /\ InitNoPeer

\* the setup of the integration and of its two platforms over any registry
InitSetup ==
    /\ InitAbsent
    /\ registry \in Registries
    /\ configData = [username |-> "svc", password |-> "pw"]
    /\ entryData = [username |-> "rd", password |-> "rp"]
    /\ nWrites = 0

NextSetup ==
    \/ setup_entry
    \/ switch_setup_entry
    \/ sensor_setup_entry
    \/ setup_entry_return

SpecSetup == InitSetup /\ [][NextSetup]_vars

\* setup, options flow, unload and the switch of the one Shelly device of the registry
InitOptions ==
    /\ InitAbsent
    /\ registry = <<[identifiers |-> TRUE, config_entries |-> <<ShellyEntry(Host1, "none")>>]>>
    /\ configData \in {c \in WriterCredentials : c.username # Absent}
    /\ entryData = [username |-> "rd", password |-> "rp"]
    /\ nWrites = MaxWrites - 1

NextOptions ==
    \/ setup_entry
    \/ switch_setup_entry
    \/ sensor_setup_entry
    \/ setup_entry_return
    \/ async_step_init
    \/ async_unload_entry
    \/ async_unload_entry_pop
    \/ async_added_to_hass
    \/ CheckAuthReturn
    \/ CheckAuthExit
    \/ async_turn_on
    \/ async_turn_off
    \/ SetAuthProbeReturn
    \/ SetAuthMutationReturn
    \/ SetAuthExit

SpecOptions == InitOptions /\ [][NextOptions]_vars

TypeOK ==
    /\ attr_is_on \in {"unknown", "enabled", "disabled"}
    /\ wpc \in {"idle", "probe", "mutate", "closing"}
    /\ addPc \in {"none", "new", "polling", "closing", "added"}
    /\ wresult \in {"none", "rejected", "ok", "failed"}
    /\ spc \in {"none", "new", "probe", "gen1", "gen2", "closing", "done"}
    /\ entryState \in {"not_loaded", "setup", "loaded", "unloading"}
    /\ hassData \in WriterCredentials \cup UserInputs \cup {NoHassData}
    /\ platforms \subseteq {"switch", "sensor"}
    /\ peerPc \in {"none", "new", "polling", "closing", "added"}
    /\ peer_attr_is_on \in {"unknown", "enabled", "disabled"}
    /\ nPeerWrites \in 0..MaxPeerWrites
    /\ \A o \in others : /\ o.switch \in {1, 2}
                         /\ o.pc \in {"probe", "mutate", "closing"}
                         /\ o.enable \in BOOLEAN

\* ------------------------------------------------------------------ claims
Requested == IF wenable THEN "enabled" ELSE "disabled"
Ok200(resp) == resp.kind = "http" /\ resp.status = 200
AllCalls == <<rcalls, wcalls, scalls>>
\* the same _set_auth coroutine, before and after a step
SameRun(o, q) == q.switch = o.switch /\ q.n = o.n
\* _attr_is_on of the switch an overlapped _set_auth runs on
StateOf(o, first, second) == IF o.switch = 1 THEN first ELSE second

\* C1: _set_auth invoked while the writer password is empty sends no request (no
\* probe, no mutation), leaves _attr_is_on as it was and ends rejected, whatever the
\* prior state and the value of enable.
C1_EmptyPasswordRejected ==
    /\ [](wresult = "rejected" => wcalls = <<>> /\ wpc = "idle")
    /\ [][(nWrites' # nWrites /\ Password(credentials) = "")
            => /\ wcalls' = <<>>
               /\ rcalls' = rcalls /\ scalls' = scalls
               /\ attr_is_on' = attr_is_on
               /\ wresult' = "rejected"
               /\ wlog'.level = "error"
               /\ wpc' = "idle"]_vars

C1_Witness ==
    /\ wresult = "rejected" /\ ~wenable /\ wprior = "enabled" /\ attr_is_on = "enabled"
    /\ credentials.password = ""

\* C2: when the mutation call returns HTTP 200 _attr_is_on becomes the requested value;
\* on any other status, or when a step of _set_auth raises, _attr_is_on keeps the value
\* it had and is not reset to unknown. The same holds for every step of a _set_auth that
\* a later invocation has overlapped.
C2_WriteStateEffect ==
    [][/\ (wpc = "mutate" /\ wpc' # "mutate")
            => attr_is_on' = IF Ok200(wresp') THEN Requested ELSE attr_is_on
       /\ (wpc = "closing" /\ wpc' # "closing" /\ nWrites' = nWrites)
            => /\ attr_is_on' = attr_is_on
               /\ wresult' = IF Len(wcalls) = 2 /\ Ok200(wresp) THEN "ok" ELSE "failed"
       /\ (wpc = "probe" /\ wpc' # "probe") => attr_is_on' = attr_is_on
       /\ (nWrites' # nWrites) => attr_is_on' = attr_is_on
       /\ \A o \in others \ others' :
             IF \E q \in others' : SameRun(o, q) /\ o.pc = "mutate"
             THEN \A q \in others' :
                     SameRun(o, q)
                        => StateOf(o, attr_is_on', peer_attr_is_on')
                              = IF Ok200(q.resp)
                                THEN (IF o.enable THEN "enabled" ELSE "disabled")
                                ELSE StateOf(o, attr_is_on, peer_attr_is_on)
             ELSE attr_is_on' = attr_is_on /\ peer_attr_is_on' = peer_attr_is_on]_vars

\* Scenario D: Sys.SetAuth answers 403 to a disable request, the state stays enabled
C2_Witness ==
    /\ wresult = "failed" /\ wresp.kind = "http" /\ wresp.status = 403
    /\ ~wenable /\ wgen = 3 /\ Len(wcalls) = 2
    /\ wprior = "enabled" /\ attr_is_on = "enabled"
    /\ wlog = Log("error", "status", 403)

\* C3: when the feed data carries auth_en (also with the value false), reading it at
\* attach time or on a coordinator update sets _attr_is_on to that value and sends no
\* request; auth_en wins over auth when both are present.
C3_FeedFlagAdopted ==
    [][/\ (nPush' # nPush /\ coordData'.t = "map" /\ coordData'.auth_en # Absent)
            => /\ attr_is_on' = (IF coordData'.auth_en = "true" THEN "enabled" ELSE "disabled")
               /\ AllCalls' = AllCalls
       /\ (addPc = "new" /\ addPc' # "new" /\ coordinator = "feed"
           /\ coordData.t = "map" /\ coordData.auth_en # Absent)
            => /\ attr_is_on' = (IF coordData.auth_en = "true" THEN "enabled" ELSE "disabled")
               /\ AllCalls' = AllCalls
               /\ addPc' = "added"]_vars

C3_Witness ==
    /\ nPush >= 1 /\ lastPush = "adopted"
    /\ coordData.t = "map" /\ coordData.auth_en = "false" /\ coordData.auth = "true"
    /\ attr_is_on = "disabled" /\ rcalls = <<>>

\* C4 (as claimed): at attach time a poll is sent whenever the feed yields no value: no
\* feed object, feed data without key lookup, or both keys absent.
FeedYieldsNothing ==
    \/ coordinator # "feed"
    \/ coordData.t # "map"
    \/ coordData.auth_en = Absent /\ coordData.auth = Absent

C4_PollWhenFeedSilent ==
    [][(addPc = "new" /\ addPc' # "new" /\ FeedYieldsNothing)
            => addPc' = "polling" /\ Len(rcalls') = 1]_vars

\* C5: a poll answered with HTTP 401 sets _attr_is_on to enabled, with or without reader
\* credentials.
C5_Poll401Enabled ==
    [][(addPc = "polling" /\ addPc' # "polling" /\ rresp'.kind = "http" /\ rresp'.status = 401)
            => attr_is_on' = "enabled"]_vars

C5_Witness ==
    /\ addPc = "added" /\ rresp.kind = "http" /\ rresp.status = 401
    /\ nWrites = 0 /\ attr_is_on = "enabled"
    /\ rcalls[1].auth.kind = "basic"

\* C6 (as claimed): a polled read that ends in an exception leaves _attr_is_on unknown.
C6_FailedReadUnknown ==
    [][(addPc = "polling" /\ addPc' # "polling" /\ CheckAuthFailed(rresp'))
            => attr_is_on' = "unknown" /\ ~rraised']_vars

\* C7 (as claimed): the value _detect_generation returns is always classified: Gen2/3
\* exactly when the probe returned HTTP 200 with gen >= 2, Gen1 in every other case.
C7_DetectClassifies ==
    sresp.kind # "none"
        => LET gen2 == /\ Ok200(sresp) /\ sresp.body.t = "obj"
                       /\ sresp.body.gen.t = "int" /\ sresp.body.gen.v >= 2
           IN /\ ~sraised
              /\ gen2 => spc \in {"gen2", "closing", "done"} /\ Len(scalls) = 2
                         /\ scalls[2].path = "/rpc/Sys.GetConfig"
              /\ ~gen2 => spc \in {"gen1", "closing", "done"} /\ Len(scalls) = 2
                          /\ scalls[2].path = "/settings"

\* C8: the mutation request matches the detected generation and the direction:
\* POST /rpc/Sys.SetAuth for gen >= 2, GET /settings/login otherwise; enabling puts the
\* writer credentials in the body or query and sends no basic-auth; disabling sends a
\* null user (or enabled=0 alone) with basic-auth built from the writer credentials.
\* The mutation request of an overlapped _set_auth has one of these shapes for its own
\* direction.
C8_MutationRequestShape ==
    /\ wpc = "mutate"
         => (wgen >= 2 <=> (/\ Ok200(wresp) /\ wresp.body.t = "obj"
                            /\ wresp.body.gen.t = "int" /\ wresp.body.gen.v >= 2))
    /\ Len(wcalls) >= 2
         => LET m == wcalls[2]
                user == IF credentials.username = Absent THEN "admin" ELSE credentials.username
                pass == credentials.password
                basic == [kind |-> "basic", login |-> user, password |-> pass]
                none == [kind |-> "none", login |-> "", password |-> ""]
            IN /\ pass \notin {Absent, ""}
               /\ wgen >= 2 => m.method = "POST" /\ m.path = "/rpc/Sys.SetAuth"
                               /\ m.payload.kind = "json"
               /\ wgen < 2 => m.method = "GET" /\ m.path = "/settings/login"
                              /\ m.payload.kind = "params"
               /\ (wgen >= 2 /\ wenable)
                    => m.payload.keys = {"user", "pass"} /\ m.payload.user = user
                       /\ m.payload.pass = pass /\ m.auth = none
               /\ (wgen >= 2 /\ ~wenable)
                    => m.payload.keys = {"user"} /\ m.payload.user = Null /\ m.auth = basic
               /\ (wgen < 2 /\ wenable)
                    => m.payload.keys = {"enabled", "username", "password"}
                       /\ m.payload.enabled = "1" /\ m.payload.user = user
                       /\ m.payload.pass = pass /\ m.auth = none
               /\ (wgen < 2 /\ ~wenable)
                    => m.payload.keys = {"enabled"} /\ m.payload.enabled = "0"
                       /\ m.auth = basic
    /\ \A o \in others :
          Len(o.calls) >= 2
             => LET m == o.calls[2]
                    user == IF credentials.username = Absent THEN "admin"
                            ELSE credentials.username
                    pass == credentials.password
                    basic == [kind |-> "basic", login |-> user, password |-> pass]
                    none == [kind |-> "none", login |-> "", password |-> ""]
                IN /\ pass \notin {Absent, ""}
                   /\ \/ /\ m.method = "POST" /\ m.path = "/rpc/Sys.SetAuth"
                         /\ m.payload.kind = "json"
                         /\ IF o.enable
                            THEN /\ m.payload.keys = {"user", "pass"}
                                 /\ m.payload.user = user /\ m.payload.pass = pass
                                 /\ m.auth = none
                            ELSE /\ m.payload.keys = {"user"} /\ m.payload.user = Null
                                 /\ m.auth = basic
                      \/ /\ m.method = "GET" /\ m.path = "/settings/login"
                         /\ m.payload.kind = "params"
                         /\ IF o.enable
                            THEN /\ m.payload.keys = {"enabled", "username", "password"}
                                 /\ m.payload.enabled = "1" /\ m.payload.user = user
                                 /\ m.payload.pass = pass /\ m.auth = none
                            ELSE /\ m.payload.keys = {"enabled"} /\ m.payload.enabled = "0"
                                 /\ m.auth = basic

C8_Witness ==
    /\ wpc = "mutate" /\ wgen = 1 /\ ~wenable /\ credentials.username = Absent
    /\ wcalls[2].auth.login = "admin"

\* C9: one _set_auth invocation sends at most one probe and at most one mutation call,
\* the probe first, and sends nothing more once it has ended, whatever the answers.
MutationPaths == {"/rpc/Sys.SetAuth", "/settings/login"}

C9_OneProbeOneMutation ==
    /\ [](/\ Len(wcalls) <= 2
          /\ Len(wcalls) >= 1 => wcalls[1].path = "/shelly"
          /\ Len(wcalls) >= 2 => wcalls[2].path \in MutationPaths
          /\ wpc = "probe" => Len(wcalls) = 1
          /\ wpc = "mutate" => Len(wcalls) = 2
          /\ \A o \in others :
                /\ Len(o.calls) \in {1, 2}
                /\ o.calls[1].path = "/shelly"
                /\ Len(o.calls) = 2 => o.calls[2].path \in MutationPaths
                /\ o.pc = "probe" => Len(o.calls) = 1
                /\ o.pc = "mutate" => Len(o.calls) = 2)
    /\ [][(wpc = "idle" /\ nWrites' = nWrites) => wcalls' = wcalls]_vars
    /\ [][/\ (wpc = "mutate" /\ wpc' # "mutate" /\ nWrites' = nWrites)
                => wpc' = "closing" /\ wcalls' = wcalls
          /\ (wpc = "closing" /\ wpc' # "closing" /\ nWrites' = nWrites)
                => wpc' = "idle" /\ wcalls' = wcalls
          /\ (wpc # "idle" /\ nWrites' # nWrites)
                => \E q \in others' \ others : q.calls = wcalls /\ q.pc = wpc
          /\ \A o \in others : \A q \in others' :
                SameRun(o, q)
                   => \/ q.calls = o.calls /\ (o.pc = "probe" => q.pc # "mutate")
                      \/ /\ o.pc = "probe" /\ q.pc = "mutate"
                         /\ q.calls = Append(o.calls, q.calls[2])]_vars

C9_Witness ==
    /\ wpc = "idle" /\ wresult = "failed" /\ Len(wcalls) = 2
    /\ wresp.kind = "exc" /\ nWrites = MaxWrites

\* the answers a device whose authentication is on gives to the enable call, which
\* carries no credentials (switch.py:290, 334): it accepts the call, or it gates it with
\* the 401 that the reads take as the sign of authentication being on
EnabledDeviceAnswers(resp) == resp.kind = "http" /\ resp.status \in {200, 401}

\* C10 (as claimed): _set_auth(enable=True) invoked with a password while the switch
\* already shows enabled, the first time as the second, sends the probe and then always
\* the mutation call; whenever the device answers that call, accepting or gating it, the
\* state stays enabled and the call ends successfully.
C10_EnableIdempotent ==
    [][(wenable' /\ wprior' = "enabled")
            => /\ (nWrites' # nWrites /\ Password(credentials) # "")
                    => wpc' = "probe" /\ Len(wcalls') = 1 /\ wresult' = "none"
               /\ (wpc = "probe" /\ wpc' # "probe" /\ nWrites' = nWrites)
                    => /\ wpc' = "mutate"
                       /\ Len(wcalls') = 2
                       /\ wcalls'[2].path \in MutationPaths
                       /\ wcalls'[2].payload.pass = Password(credentials)
               /\ (wpc = "mutate" /\ wpc' # "mutate" /\ Ok200(wresp'))
                    => attr_is_on' = "enabled"
               /\ (wpc = "closing" /\ wpc' # "closing" /\ nWrites' = nWrites
                        /\ Len(wcalls) = 2 /\ EnabledDeviceAnswers(wresp))
                    => wresult' = "ok"]_vars

\* C11 (as claimed, Scenario A): without feed, when GET /shelly answers {"gen": 1} the
\* read goes on to GET /settings and, the device reporting auth=true there, ends enabled.
ScenarioAProbe ==
    Http(200, [t |-> "obj", gen |-> [t |-> "int", v |-> 1], auth_en |-> Absent, auth |-> Absent])

C11_Gen1ReadsSettings ==
    (coordinator = "none" /\ addPc = "added" /\ rresp = ScenarioAProbe /\ nWrites = 0)
        => /\ Len(rcalls) = 2 /\ rcalls[2].path = "/settings"
           /\ attr_is_on = "enabled"

\* C12 (as claimed): when the describe has ended, for whatever answers, no exception
\* has left it and the sensor value is a string, never None.
C12_DescribeDefinite ==
    spc = "done" => ~sraised /\ native_value # None

\* C13: the sensor value follows the generation and the answer to the configuration
\* call: Gen1 + 200 with empty or missing peer gives the multicast text, with a peer the
\* unicast text naming it; Gen2/3 + 200 gives the server, or the not-configured text;
\* 401 gives the auth-required text; an exception on the Gen2/3 call gives the
\* auto-discovery text. /settings is called only for gen < 2, Sys.GetConfig only for
\* gen >= 2.
C13_DescribeMapping ==
    /\ Len(scalls) >= 2
         => /\ sgen.t = "int"
            /\ scalls[2].path = "/settings" <=> sgen.v < 2
            /\ scalls[2].path = "/rpc/Sys.GetConfig" <=> sgen.v >= 2
            /\ scalls[2].method = (IF sgen.v >= 2 THEN "POST" ELSE "GET")
    /\ (spc = "done" /\ cresp.kind # "none")
         => LET gen1 == sgen.v < 2
                ok == cresp.kind = "http" /\ cresp.status = 200 /\ cresp.body.t = "obj"
                      /\ cresp.body.section # Null
                missing == cresp.body.section = Absent
                           \/ cresp.body.value \in {Absent, Null, ""}
            IN /\ (gen1 /\ ok /\ missing) => native_value = "CoIoT: mcast (multicast)"
               /\ (gen1 /\ ok /\ ~missing)
                    => native_value = "CoIoT: unicast 192.168.1.10:5683"
               /\ (~gen1 /\ ok /\ ~missing) => native_value = "WebSocket: wss://example/ws"
               /\ (~gen1 /\ ok /\ missing)
                    => native_value = "WebSocket: Not configured (uses mDNS)"
               /\ (gen1 /\ cresp.kind = "http" /\ cresp.status = 401)
                    => native_value = "CoIoT: Unknown (auth required)"
               /\ (~gen1 /\ cresp.kind = "http" /\ cresp.status = 401)
                    => native_value = "WebSocket: Unknown (auth required)"
               /\ (~gen1 /\ cresp.kind = "exc")
                    => native_value = "WebSocket: Auto-discovery (mDNS)"

\* Scenario B: gen 3 and a configured WebSocket server
C13_Witness ==
    /\ spc = "done" /\ sgen = [t |-> "int", v |-> 3]
    /\ cresp.kind = "http" /\ cresp.status = 200 /\ cresp.body.value = WsServer
    /\ native_value = "WebSocket: wss://example/ws"
    /\ scalls[2].path = "/rpc/Sys.GetConfig"

\* C14: when coordinator updates interleave with a _set_auth, the last assignment wins:
\* an update carrying a flag that arrives while the write is awaiting sets the state to
\* the flag, a write answered with HTTP 200 after such an update sets the state to the
\* requested value, a failed write leaves the pushed value, and no change ever yields
\* unknown.
FeedFlag(data) == IF data.auth_en # Absent THEN data.auth_en ELSE data.auth

C14_LastWriterWins ==
    [][/\ (nPush' # nPush /\ wpc # "idle" /\ coordData'.t = "map"
           /\ FeedFlag(coordData') # Absent)
            => attr_is_on' = (IF FeedFlag(coordData') = "true" THEN "enabled" ELSE "disabled")
       /\ (wpc = "mutate" /\ wpc' # "mutate" /\ pushedInWrite /\ Ok200(wresp'))
            => attr_is_on' = (IF wenable THEN "enabled" ELSE "disabled")
       /\ (wpc # wpc' /\ wpc # "idle" /\ ~(wpc = "mutate" /\ Ok200(wresp')))
            => attr_is_on' = attr_is_on
       /\ attr_is_on' # attr_is_on => attr_is_on' \in {"enabled", "disabled"}]_vars

\* the only update, carrying auth_en=false, arrived during an enable that then succeeded
C14_Witness ==
    /\ wpc = "idle" /\ wresult = "ok" /\ wenable /\ pushedInWrite /\ nPush = 1
    /\ lastPush = "adopted" /\ coordData.t = "map" /\ coordData.auth_en = "false"
    /\ attr_is_on = "enabled"

\* the sessions on which the requests of a list went out
SessionsOf(calls) == {calls[i].session : i \in 1..Len(calls)}
\* the requests of the operations in hand: the polled read, the running (or last) write
\* and the describe of the first device, the polled read of the second device
OperationCalls == <<rcalls, wcalls, scalls, peerCalls>>

\* C15: the polled read, the write and the describe each run in a session of their own
\* that is open exactly while the operation is awaiting and closed once it has ended, on
\* every path; requests are sent only while the operation's session is open, all
\* requests of one operation go out on one session, and no session carries requests of
\* two operations: not of two operations of one device, not of a write and the write
\* before it, whether that one has ended or is still awaiting, not of operations of two
\* devices. An overlapped write keeps its session until it has left its `async with`.
C15_SessionsScoped ==
    /\ [](/\ addPc \in {"polling", "closing"} <=> rsession = "open"
          /\ wpc # "idle" <=> wsession = "open"
          /\ spc \in {"probe", "gen1", "gen2", "closing"} <=> ssession = "open"
          /\ peerPc \in {"polling", "closing"} <=> peerSession = "open"
          /\ (addPc = "added" /\ rcalls # <<>>) => rsession = "closed"
          /\ (wpc = "idle" /\ wcalls # <<>>) => wsession = "closed"
          /\ spc = "done" => ssession = "closed"
          /\ (peerPc = "added" /\ peerCalls # <<>>) => peerSession = "closed"
          /\ \A i \in 1..4 : /\ Cardinality(SessionsOf(OperationCalls[i])) <= 1
                             /\ NoSession \notin SessionsOf(OperationCalls[i])
          /\ \A i, j \in 1..4 :
                i # j => SessionsOf(OperationCalls[i]) \cap SessionsOf(OperationCalls[j]) = {}
          /\ \A o \in others :
                /\ Cardinality(SessionsOf(o.calls)) = 1
                /\ NoSession \notin SessionsOf(o.calls)
                /\ \A i \in 1..4 : SessionsOf(o.calls) \cap SessionsOf(OperationCalls[i]) = {}
                /\ \A q \in others :
                      q # o => SessionsOf(o.calls) \cap SessionsOf(q.calls) = {})
    /\ [][/\ (rcalls' # rcalls) => rsession' = "open"
          /\ (wcalls' # wcalls /\ wcalls' # <<>>) => wsession' = "open"
          /\ (scalls' # scalls) => ssession' = "open"
          /\ (peerCalls' # peerCalls) => peerSession' = "open"
          /\ (nWrites' # nWrites) => SessionsOf(wcalls') \cap SessionsOf(wcalls) = {}
          /\ \A o \in others :
                IF \E q \in others' : SameRun(o, q)
                THEN \A q \in others' :
                        SameRun(o, q) => SessionsOf(q.calls) = SessionsOf(o.calls)
                ELSE o.pc = "closing"]_vars

\* a write of the first switch and a write of the second, overlapping, have both ended,
\* the first on a failure path, after the polls of both switches, each of the four on a
\* session of its own and none left open
C15_Witness ==
    /\ sensors = <<>> /\ nWrites = MaxWrites /\ nPeerWrites = MaxPeerWrites /\ others = {}
    /\ addPc = "added" /\ rsession = "closed" /\ rcalls # <<>>
    /\ wpc = "idle" /\ wresult = "failed" /\ wresp.kind = "http" /\ wresp.status = 403
    /\ wsession = "closed" /\ Len(wcalls) = 2
    /\ peerPc = "added" /\ peerSession = "closed" /\ Len(peerCalls) = 1
    /\ peer_attr_is_on = "disabled"
    /\ Cardinality(SessionsOf(rcalls) \cup SessionsOf(wcalls) \cup SessionsOf(scalls)
                   \cup SessionsOf(peerCalls)) = 3

\* C16: every read, write and describe that has sent a request eventually ends: each
\* awaited call is answered or times out, and no operation waits for ever.
C16_OperationsComplete ==
    /\ (addPc \in {"polling", "closing"}) ~> (addPc = "added")
    /\ (wpc # "idle") ~> (wpc = "idle")
    /\ (spc \in {"probe", "gen1", "gen2", "closing"}) ~> (spc = "done")

\* a write and the describe ended although every one of their calls timed out
C16_Witness ==
    /\ wpc = "idle" /\ Len(wcalls) = 2 /\ wresp.kind = "exc" /\ wresult = "failed"
    /\ spc = "done" /\ sresp.kind = "exc" /\ cresp.kind = "exc"
    /\ wsession = "closed" /\ ssession = "closed"

\* C17 (as claimed): whenever the generation probe of _set_auth fails (exception,
\* non-200 status, body that is not an object, gen missing or not a number) the call
\* goes on and sends one mutation call in the Gen1 dialect.
ProbeFailed(resp) ==
    ~(Ok200(resp) /\ resp.body.t = "obj" /\ resp.body.gen.t = "int")

C17_ProbeFailureMeansGen1 ==
    [][(wpc = "probe" /\ wpc' # "probe" /\ ProbeFailed(wresp'))
            => /\ wpc' = "mutate"
               /\ Len(wcalls') = 2
               /\ wcalls'[2].method = "GET" /\ wcalls'[2].path = "/settings/login"]_vars

\* C18 (as claimed): on HTTP 200 the poll adopts, for gen 2 or 3, auth_en or else auth,
\* and for any other gen auth alone; a false flag gives disabled; when the selected
\* flags are missing the state is left as it was.
SelectedFlag(body) ==
    IF body.gen.t = "int" /\ body.gen.v \in {2, 3}
    THEN (IF body.auth_en # Absent THEN body.auth_en ELSE body.auth)
    ELSE body.auth

C18_PollFlagByGeneration ==
    [][(addPc = "polling" /\ addPc' # "polling" /\ Ok200(rresp') /\ rresp'.body.t = "obj")
            => IF SelectedFlag(rresp'.body) = Absent
               THEN attr_is_on' = attr_is_on
               ELSE attr_is_on' = (IF SelectedFlag(rresp'.body) = "true"
                                   THEN "enabled" ELSE "disabled")]_vars

\* C19: requests of the reader and of the describe carry the reader credentials of the
\* device, as basic-auth and only when username and password are both non-empty, and
\* nothing of the writer credentials; requests of _set_auth carry the writer credentials
\* only, in the payload or as basic-auth, and nothing of the reader credentials.
C19_CredentialsNotMixed ==
    LET ru == IF entryData.username = Absent THEN "" ELSE entryData.username
        rp == entryData.password
        wu == IF credentials.username = Absent THEN "admin" ELSE credentials.username
        wp == IF credentials.password = Absent THEN "" ELSE credentials.password
        readerAuth(q) == IF ru # "" /\ rp # ""
                         THEN q.auth = [kind |-> "basic", login |-> ru, password |-> rp]
                         ELSE q.auth.kind = "none"
        noSecrets(q) == q.payload.user = "" /\ q.payload.pass = ""
    IN /\ \A i \in 1..Len(rcalls) : readerAuth(rcalls[i]) /\ noSecrets(rcalls[i])
       /\ \A i \in 1..Len(scalls) :
             /\ noSecrets(scalls[i])
             /\ IF i = 1 THEN scalls[i].auth.kind = "none" ELSE readerAuth(scalls[i])
       /\ \A i \in 1..Len(wcalls) :
             /\ wcalls[i].auth.kind = "none"
                \/ wcalls[i].auth = [kind |-> "basic", login |-> wu, password |-> wp]
             /\ wcalls[i].payload.user \in {"", Null, wu}
             /\ wcalls[i].payload.pass \in {"", wp}
             /\ wcalls[i].auth.login \notin {"rd"} /\ wcalls[i].auth.password \notin {"rp"}
             /\ wcalls[i].payload.user # "rd" /\ wcalls[i].payload.pass # "rp"
       /\ \A o \in others : \A i \in 1..Len(o.calls) :
             /\ o.calls[i].auth.kind = "none"
                \/ o.calls[i].auth = [kind |-> "basic", login |-> wu, password |-> wp]
             /\ o.calls[i].payload.user \in {"", Null, wu}
             /\ o.calls[i].payload.pass \in {"", wp}

\* read, describe and a disable have each sent their authenticated request
C19_Witness ==
    /\ addPc = "polling"
    /\ Len(rcalls) = 1 /\ rcalls[1].auth.kind = "basic" /\ rcalls[1].auth.login = "rd"
    /\ Len(scalls) = 2 /\ scalls[2].auth.kind = "basic" /\ scalls[2].auth.password = "rp"
    /\ Len(wcalls) = 2 /\ ~wenable /\ wcalls[2].auth.kind = "basic"
    /\ wcalls[2].auth.login = "svc" /\ wcalls[2].auth.password = "pw"

\* C20: once _attr_is_on is enabled or disabled no step sets it back to unknown: no
\* coordinator update (with or without flags), no write (failed or successful), no
\* failed poll.
C20_NeverBackToUnknown ==
    [][attr_is_on # "unknown" => attr_is_on' # "unknown"]_vars

\* a state set by the feed survived an update without flags and a failed write
C20_Witness ==
    /\ attr_is_on = "disabled" /\ nPush >= 1 /\ lastPush = "kept" /\ coordData.t = "nil"
    /\ wpc = "idle" /\ wresult = "failed" /\ wprior = "disabled"

\* C21: a coordinator update whose data yields no usable value (data without key lookup,
\* both keys absent, or a lookup that raises) leaves _attr_is_on as it was, sends no
\* request and raises nothing to the coordinator that called the listener.
C21_SilentPushKeepsState ==
    [][(nPush' # nPush /\ (coordData'.t # "map"
                           \/ (coordData'.auth_en = Absent /\ coordData'.auth = Absent)))
            => /\ attr_is_on' = attr_is_on
               /\ AllCalls' = AllCalls
               /\ ~rraised']_vars

C21_Witness ==
    /\ nPush = 1 /\ lastPush = "kept"
    /\ coordData.t = "raises"
    /\ attr_is_on = "enabled"
    /\ rcalls = <<>> /\ wcalls = <<>>
    /\ ~rraised

\* the hosts the claim gives entities to: the non-empty hosts of the "shelly" entries of
\* the devices that have identifiers
ClaimedHosts ==
    UNION {{registry[i].config_entries[k].host :
               k \in {n \in 1..Len(registry[i].config_entries) :
                         /\ registry[i].identifiers
                         /\ registry[i].config_entries[n].domain = "shelly"
                         /\ registry[i].config_entries[n].host # ""}} :
           i \in 1..Len(registry)}

\* the devices with identifiers that belong to a "shelly" entry with host h
DevicesOf(h) ==
    {i \in 1..Len(registry) :
        /\ registry[i].identifiers
        /\ \E k \in 1..Len(registry[i].config_entries) :
              /\ registry[i].config_entries[k].domain = "shelly"
              /\ registry[i].config_entries[k].host = h}

FirstDeviceOf(h) == CHOOSE i \in DevicesOf(h) : \A j \in DevicesOf(h) : i <= j

SwitchesOf(h) == {j \in 1..Len(switches) : switches[j].host = h}
SensorsOf(kind, h) == {j \in 1..Len(sensors) : sensors[j].kind = kind /\ sensors[j].host = h}

\* C22 (as claimed): once both platforms are set up, every host of a "shelly" entry of a
\* device with identifiers has exactly one auth switch, one IP sensor and one connectivity
\* sensor, all of the first such device in the registry, and no other host has an entity.
C22_OneEntitySetPerHost ==
    platforms = {"switch", "sensor"}
        => \A h \in {Host1, Host2} :
              IF h \in ClaimedHosts
              THEN /\ Cardinality(SwitchesOf(h)) = 1
                   /\ Cardinality(SensorsOf("ip", h)) = 1
                   /\ Cardinality(SensorsOf("connectivity", h)) = 1
                   /\ \A j \in SwitchesOf(h) : switches[j].device = FirstDeviceOf(h)
                   /\ \A j \in SensorsOf("ip", h) \cup SensorsOf("connectivity", h) :
                         sensors[j].device = FirstDeviceOf(h)
              ELSE /\ SwitchesOf(h) = {}
                   /\ SensorsOf("ip", h) = {}
                   /\ SensorsOf("connectivity", h) = {}

\* C23: a _set_auth on a switch that exists evaluates the empty-password test on, and
\* sends, the writer credentials the entry held when the integration was last set up; an
\* options flow that replaces the entry's credentials changes neither.
C23_SetupCredentialsUsed ==
    [][LET user == IF setupData.username = Absent THEN "admin" ELSE setupData.username
           pass == IF setupData.password = Absent THEN "" ELSE setupData.password
       IN /\ nOptions' # nOptions => credentials' = credentials
          /\ nWrites' # nWrites => (wresult' = "rejected" <=> pass = "")
          /\ (switches # <<>> /\ Len(wcalls) = 1 /\ Len(wcalls') = 2)
               => IF wenable
                  THEN /\ wcalls'[2].payload.user = user
                       /\ wcalls'[2].payload.pass = pass
                  ELSE wcalls'[2].auth = [kind |-> "basic", login |-> user, password |-> pass]]_vars

C23_Witness ==
    /\ nOptions = 1 /\ nWrites > writesAtOptions /\ nSetups = 1
    /\ configData = [username |-> "ops", password |-> "pw2"]
    /\ setupData = [username |-> "svc", password |-> "pw"]
    /\ wenable /\ Len(wcalls) = 2
    /\ wcalls[2].payload.user = "svc" /\ wcalls[2].payload.pass = "pw"
====
